---------------------------- MODULE Spec2Model ----------------------------
(***************************************************************************)
(* Model of the Purruga chat companion (src/unnamed/part_000): the         *)
(* on_message engagement handler with its StateStore maps, the meme and    *)
(* completion providers, and the cooperative interleaving of concurrent    *)
(* handler invocations at their await points.                              *)
(***************************************************************************)
EXTENDS Integers, Sequences, FiniteSets, Bags, TLC

(***************************************************************************)
(* Bounds of the exploration.                                              *)
(***************************************************************************)
\* non-bot messages delivered in a run of Spec
MaxMessages == 2
\* handler invocations in flight at the same time in Spec
MaxTasks == 1
\* non-bot messages delivered in a run of SpecRace
RaceMessages == 2
\* handler invocations in flight at the same time in SpecRace
RaceTasks == 2
\* non-bot messages delivered in a run of SpecDeep
DeepMessages == 11
\* number of clock advances in a run
MaxTicks == 1
\* messages of a run of SpecDeep whose text holds a keyword
DeepKeywordMessages == 1
\* handler invocations in flight at the same time in SpecDeep
DeepTasks == 1

\* text channels of a guild, at most
MaxChannels == 2
\* calls of pick_channel_for_guild in a run of SpecSelect
MaxPicks == 2
\* permission changes the platform makes in a run of SpecSelect
MaxGuildUpdates == 1

\* guilds the bot is connected to, at most
MaxGuilds == 2
\* firings of a loop in a run
MaxFirings == 2
\* slots into which the model divides an hour of datetime.now()
SlotsPerHour == 2
\* firings of each loop where both loops run side by side
JobsFirings == 1
\* messages and concurrent invocations while the loops run
MixedMessages == 1
\* messages and concurrent invocations while the web server answers
StatsMessages == 1

\* seconds by which one clock advance moves time.time()
TimeSteps == {20}
\* the same in SpecDeep, where only the user cooldown matters
DeepSteps == {60}

Users == {"u1", "u2"}
Channels == {"c1", "c2"}
Texts == {"Cats rule", "hello"}
ChannelNames == {"General", "random"}

(***************************************************************************)
(* Program constants.                                                      *)
(***************************************************************************)
CHANNEL_COOLDOWN == 20
DAILY_HOUR == 20
\* @tasks.loop(hours=24), datetime.timedelta(days=1)
HOURS_PER_DAY == 24
USER_COOLDOWN == 60
\* activity_count[user_id] >= 10
ACTIVE_THRESHOLD == 10
\* len(user_message_history[user_id]) > 10, [-10:]
HISTORY_LIMIT == 10
\* the count from which handle_stats reports a user as active
STATS_ACTIVE_COUNT == 10

None == "None"

(***************************************************************************)
(* Text helpers: str.lower() and the substring test `k in s`.              *)
(***************************************************************************)
\* the characters of each message text, URL and channel name the model uses
Chars(s) ==
  CASE s = "Cats rule" -> <<"C", "a", "t", "s", " ", "r", "u", "l", "e">>
    [] s = "hello"     -> <<"h", "e", "l", "l", "o">>
    [] s = "x.JPG"     -> <<"x", ".", "J", "P", "G">>
    [] s = "x.mp4"     -> <<"x", ".", "m", "p", "4">>
    [] s = "x.gifv"    -> <<"x", ".", "g", "i", "f", "v">>
    [] s = "General"   -> <<"G", "e", "n", "e", "r", "a", "l">>
    [] s = "random"    -> <<"r", "a", "n", "d", "o", "m">>
    [] OTHER           -> << >>

LowerChar(ch) ==
  CASE ch = "C" -> "c"
    [] ch = "J" -> "j"
    [] ch = "P" -> "p"
    [] ch = "G" -> "g"
    [] OTHER    -> ch

Lower(cs) == [i \in 1..Len(cs) |-> LowerChar(cs[i])]

\* Python's `sub in s` on strings
Contains(sub, s) ==
  \E i \in 0..(Len(s) - Len(sub)) :
     \A j \in 1..Len(sub) : s[i + j] = sub[j]

cat_keywords ==
  { <<"m", "e", "o", "w">>, <<"p", "u", "r", "r">>, <<"c", "a", "t">>,
    <<"k", "i", "t", "t", "e", "n">>, <<"k", "i", "t", "t", "y">>,
    <<"f", "e", "l", "i", "n", "e">>,
    <<"w", "h", "i", "s", "k", "e", "r", "s">>, <<"p", "a", "w">>,
    <<"t", "a", "i", "l">> }

\* content = message.content.lower(); any(keyword in content ...)
HasKeyword(text) == \E k \in cat_keywords : Contains(k, Lower(Chars(text)))

\* the texts of the model that trigger the keyword branch
KeywordTexts == { text \in Texts : HasKeyword(text) }

(***************************************************************************)
(* dict helpers.                                                           *)
(***************************************************************************)
Get(d, k, default) == IF k \in DOMAIN d THEN d[k] ELSE default
Put(d, k, v) == [x \in (DOMAIN d) \cup {k} |-> IF x = k THEN v ELSE d[x]]
EmptyDict == [x \in {} |-> 0]

\* s[-n:]
LastN(s, n) ==
  IF Len(s) <= n THEN s ELSE [i \in 1..n |-> s[Len(s) - n + i]]


(***************************************************************************)
(* Providers.                                                              *)
(***************************************************************************)
\* a Python value is truthy: neither None nor the empty string
Truthy(v) == v # None /\ v # ""

\* what the meme API may answer: a status with a JSON body, or an exception
\* (network error, timeout, malformed body)
MemeReplies ==
  { [status |-> 200, url |-> "x.JPG"], [status |-> 200, url |-> "x.mp4"],
    [status |-> 200, url |-> None], [status |-> 200, url |-> ""],
    [status |-> 404, url |-> "x.JPG"],
    [status |-> 0, url |-> None] }

\* one more answer of the meme API: the URL of a video page whose name
\* holds the name of an image extension
VideoPageReplies == { [status |-> 200, url |-> "x.gifv"] }

image_exts ==
  { <<".", "j", "p", "g">>, <<".", "j", "p", "e", "g">>,
    <<".", "p", "n", "g">>, <<".", "g", "i", "f">>,
    <<".", "w", "e", "b", "p">> }

\* get_cat_meme(): the URL when status is 200 and the URL names an image,
\* None on any other answer; status 0 stands for the exception path
get_cat_meme(reply) ==
  IF reply.status = 200
  THEN IF Truthy(reply.url)
          /\ \E ext \in image_exts : Contains(ext, Lower(Chars(reply.url)))
       THEN reply.url
       ELSE None
  ELSE None

MemeResult ==
  [reply \in MemeReplies \cup VideoPageReplies |-> get_cat_meme(reply)]

\* what the completion service may answer: a content string (possibly only
\* whitespace), no content, or an exception
CompletionReplies == {"Purr! ", " ", None, "error"}

\* str.strip() on the contents the model uses
Strip(s) == CASE s = "Purr! " -> "Purr!" [] s = " " -> "" [] OTHER -> s

\* get_intelligent_response(): None without a client or on an exception,
\* else the stripped content (None when there is no content)
get_intelligent_response(client, reply) ==
  IF ~client THEN None
  ELSE IF reply = "error" THEN None
  ELSE IF Truthy(reply) THEN Strip(reply) ELSE None

\* message.author.display_name
DisplayName(u) == IF u = "u1" THEN "Ana" ELSE "Bo"

(***************************************************************************)
(* State.                                                                  *)
(***************************************************************************)
VARIABLES
  openai_client,         \* TRUE when OPENAI_API_KEY configured a client
  clock,                 \* time.time()
  last_channel_reply,    \* channel_id -> timestamp
  last_user_reply,       \* user_id -> timestamp
  activity_count,        \* user_id -> messages seen
  user_message_history,  \* user_id -> recent message texts
  tasks,                 \* bag of the on_message invocations in flight
  ticks,                 \* clock advances so far
  arrived,               \* per user, every non-bot text in arrival order
  guilds,                \* bot.guilds, each with its text channels
  picks,                 \* the calls of pick_channel_for_guild made so far
  updates,               \* permission changes the platform made so far
  wall,                  \* datetime.datetime.now(), in slots of an hour
  interval,              \* the send_cat_stuff loop
  daily,                 \* the daily_cat_meme loop
  http,                  \* the last response of the web server
  start_time             \* bot._start_time, as on_ready set it

\* the state of the scheduled jobs and of what they read
sched == << guilds, picks, updates, wall, interval, daily >>

vars == << openai_client, clock, last_channel_reply, last_user_reply,
           activity_count, user_message_history, tasks, ticks, arrived, sched,
           http, start_time >>

store == << last_channel_reply, last_user_reply, activity_count,
            user_message_history >>

Idle ==
  [ pc |-> "idle", user |-> None, channel |-> None, now |-> 0, branch |-> None, meme_url |-> None, payload |-> None,
    intelligent_response |-> None, addressee |-> None,
    responded |-> FALSE, sent |-> None,
    memeCalls |-> 0, completionCalls |-> 0, sends |-> 0, reactions |-> 0 ]

\* a loop before start()
IntervalStopped == [pc |-> "stopped"]
DailyStopped == [pc |-> "stopped"]

\* the send_cat_stuff loop once started: its position, the targets of the
\* firing under way and the one being served, what is being sent to it, and
\* a record of every target served in this firing
IntervalStarted ==
  [ pc |-> "waiting", targets |-> << >>, i |-> 0, payload |-> None,
    meme_url |-> None, fetches |-> 0, sends |-> 0, log |-> << >>,
    firings |-> 0, starts |-> 1, started |-> 0 ]

\* the daily_cat_meme loop once started: the same, with the time before_loop
\* ran, the first run time it computed, the number of anchor waits, the time
\* the next firing is due and the times of the firings so far
DailyStarted ==
  [ pc |-> "starting", targets |-> << >>, i |-> 0, payload |-> None,
    meme_url |-> None, fetches |-> 0, sends |-> 0, log |-> << >>,
    invoked |-> 0, target |-> 0, waits |-> 0, due |-> 0, fired |-> << >>,
    starts |-> 1, started |-> 0 ]

\* the web server has answered no request yet
NoResponse == [path |-> None]

\* on_ready has not run yet: bot has no _start_time
NoTime == -1

\* no guild joined and no loop started
SchedStopped ==
  /\ guilds = << >>
  /\ picks = << >>
  /\ updates = 0
  /\ wall = 0
  /\ interval = IntervalStopped
  /\ daily = DailyStopped

Init ==
  /\ SchedStopped
  /\ openai_client \in BOOLEAN
  /\ clock = 0
  /\ last_channel_reply = EmptyDict
  /\ last_user_reply = EmptyDict
  /\ activity_count = EmptyDict
  /\ user_message_history = EmptyDict
  /\ tasks = EmptyBag
  /\ ticks = 0
  /\ arrived = [u \in Users |-> << >>]
  /\ http = NoResponse
  /\ start_time = 0

(***************************************************************************)
(* on_message, cut at its await points.                                    *)
(***************************************************************************)
\* user_message_history[user_id].append(content), then keep the last 10
AppendHistoryKeepFirst(h, text) ==
  LET a == Append(h, text)
  IN  IF Len(a) > HISTORY_LIMIT THEN SubSeq(a, 1, HISTORY_LIMIT) ELSE a
AppendHistory(h, text) ==
  LET a == Append(h, text)
  IN  IF Len(a) > HISTORY_LIMIT THEN LastN(a, HISTORY_LIMIT) ELSE a

\* is_active_user = activity_count[user_id] >= 10
IsActiveStrict(count) == count > ACTIVE_THRESHOLD
IsActive(count) == count >= ACTIVE_THRESHOLD

\* activity_count[user_id] = activity_count.get(user_id, 0) + 1
NextCountResets(d, u) ==
  IF Get(d, u, 0) >= ACTIVE_THRESHOLD THEN 1 ELSE Get(d, u, 0) + 1
NextCount(d, u) == Get(d, u, 0) + 1

\* channel cooldown check
ChannelGatedInclusive(c, now) ==
  c \in DOMAIN last_channel_reply
    /\ now - last_channel_reply[c] <= CHANNEL_COOLDOWN
ChannelGatedInverted(c, now) ==
  c \in DOMAIN last_channel_reply
    /\ now - last_channel_reply[c] > CHANNEL_COOLDOWN
ChannelGated(c, now) ==
  c \in DOMAIN last_channel_reply
    /\ now - last_channel_reply[c] < CHANNEL_COOLDOWN

\* user cooldown check
UserGatedChannelWindow(u, now) ==
  u \in DOMAIN last_user_reply /\ now - last_user_reply[u] < CHANNEL_COOLDOWN
UserGated(u, now) ==
  u \in DOMAIN last_user_reply /\ now - last_user_reply[u] < USER_COOLDOWN

\* elif openai_client and (is_active_user or random.random() < 0.4)
EntersAugmentedWithoutClient(client, is_active, draw) == is_active \/ draw
EntersAugmented(client, is_active, draw) == client /\ (is_active \/ draw)

\* if responded: last_channel_reply[channel_id] = now (and the user's)
CooldownAfterSendTime(d, key, now, responded) ==
  IF responded THEN Put(d, key, clock) ELSE d
CooldownAfterAlways(d, key, now, responded) == Put(d, key, now)
CooldownAfter(d, key, now, responded) ==
  IF responded THEN Put(d, key, now) ELSE d

\* non-bot messages delivered so far, and those among them with a keyword
Delivered ==
  Cardinality({ <<u, i>> \in Users \X (1..(MaxMessages + DeepMessages)) :
                  i <= Len(arrived[u]) })
KeywordMessages ==
  Cardinality({ <<u, i>> \in Users \X (1..(MaxMessages + DeepMessages)) :
                  i <= Len(arrived[u]) /\ arrived[u][i] \in KeywordTexts })

\* the invocations in flight, and the bag with invocation t replaced by r
InFlight == BagToSet(tasks)
Resumed(t, r) == (tasks (-) SetToBag({t})) (+) SetToBag({r})

\* the branch on_message decides on, from the gate down to the draws
Decide(u, c, text, now, is_active, drawAug, drawFb) ==
  IF ChannelGated(c, now) THEN "gate_channel"
  ELSE IF UserGated(u, now) THEN "gate_user"
  ELSE IF text \in KeywordTexts THEN "keyword"
  ELSE IF EntersAugmented(openai_client, is_active, drawAug) THEN "augmented"
  ELSE IF drawFb THEN "fallback"
  ELSE "none"

\* branch 2 at its await: the completion provider was called and its text,
\* or else one of the personal_responses, is being sent to the user by name
StartAugmentedFallsThrough(base, u, answer) ==
  IF Truthy(answer)
  THEN [base EXCEPT !.pc = "sending", !.completionCalls = @ + 1,
                    !.intelligent_response = answer, !.sends = @ + 1,
                    !.addressee = DisplayName(u), !.payload = "intelligent"]
  ELSE [base EXCEPT !.pc = "sending", !.completionCalls = @ + 1,
                    !.intelligent_response = answer, !.sends = @ + 1,
                    !.payload = "cat_phrases"]
StartAugmentedNoFallback(base, u, answer) ==
  IF Truthy(answer)
  THEN [base EXCEPT !.pc = "sending", !.completionCalls = @ + 1,
                    !.intelligent_response = answer, !.sends = @ + 1,
                    !.addressee = DisplayName(u), !.payload = "intelligent"]
  ELSE [base EXCEPT !.pc = "commands", !.completionCalls = @ + 1,
                    !.intelligent_response = answer]
StartAugmented(base, u, answer) ==
  [base EXCEPT !.pc = "sending", !.completionCalls = @ + 1,
               !.intelligent_response = answer, !.sends = @ + 1,
               !.addressee = DisplayName(u),
               !.payload = IF Truthy(answer) THEN "intelligent"
                           ELSE "personal_responses"]

\* branch 3 at its await: a reaction is being added (30%) or else one of
\* the cat_phrases is being sent
StartFallbackBoth(base, drawReact) ==
  [base EXCEPT !.pc = "sending", !.sends = @ + 1,
               !.reactions = IF drawReact THEN @ + 1 ELSE @,
               !.payload = "cat_phrases"]
StartFallback(base, drawReact) ==
  IF drawReact
  THEN [base EXCEPT !.pc = "sending", !.reactions = @ + 1,
                    !.payload = "reactions"]
  ELSE [base EXCEPT !.pc = "sending", !.sends = @ + 1,
                    !.payload = "cat_phrases"]

\* the invocation as it stands at its first await
StartedGateReturns(u, c, text, now, branch, completion, drawReact) ==
  LET base == [Idle EXCEPT !.user = u, !.channel = c, !.now = now,
                           !.branch = branch]
      answer == get_intelligent_response(openai_client, completion)
  IN  CASE branch = "keyword" ->
             [base EXCEPT !.pc = "fetching_meme", !.memeCalls = @ + 1]
        [] branch = "augmented" -> StartAugmented(base, u, answer)
        [] branch = "fallback" -> StartFallback(base, drawReact)
        [] branch \in {"gate_channel", "gate_user"} ->
             [base EXCEPT !.pc = "returned"]
        [] OTHER -> [base EXCEPT !.pc = "commands"]
Started(u, c, text, now, branch, completion, drawReact) ==
  LET base == [Idle EXCEPT !.user = u, !.channel = c, !.now = now,
                           !.branch = branch]
      answer == get_intelligent_response(openai_client, completion)
  IN  CASE branch = "keyword" ->
             [base EXCEPT !.pc = "fetching_meme", !.memeCalls = @ + 1]
        [] branch = "augmented" -> StartAugmented(base, u, answer)
        [] branch = "fallback" -> StartFallback(base, drawReact)
        [] OTHER -> [base EXCEPT !.pc = "commands"]

\* a bot-authored message: on_message returns at once
OnBotMessage == UNCHANGED vars

\* the values a random draw or a provider reply can take where the code
\* makes it, and a single placeholder where the code does not get there
DrawIf(reached, values, placeholder) ==
  IF reached THEN values ELSE {placeholder}

\* a non-bot message: tracking, the cooldown gate and the branch decision
\* run without suspension up to the first await
OnMessage(users, channels, maxMsgs, maxKeyword, maxTasks) ==
  /\ Delivered < maxMsgs
  /\ BagCardinality(tasks) < maxTasks
  /\ \E u \in users, c \in channels, text \in Texts :
       LET count == NextCount(activity_count, u)
           is_active == IsActive(count)
           now == clock
           open == /\ ~ChannelGated(c, now)
                   /\ ~UserGated(u, now)
                   /\ text \notin KeywordTexts
       IN  /\ text \in KeywordTexts => KeywordMessages < maxKeyword
           /\ \E drawAug \in DrawIf(open /\ openai_client /\ ~is_active,
                                    BOOLEAN, FALSE) :
              \E drawFb \in DrawIf(open /\ ~EntersAugmented(openai_client,
                                                   is_active, drawAug),
                                   BOOLEAN, FALSE) :
              \E drawReact \in DrawIf(drawFb, BOOLEAN, FALSE) :
              \E completion \in DrawIf(open /\ EntersAugmented(openai_client,
                                                   is_active, drawAug),
                                       CompletionReplies, None) :
                LET branch == Decide(u, c, text, now, is_active, drawAug,
                                     drawFb)
                IN  tasks' = tasks (+) SetToBag({
                                Started(u, c, text, now, branch, completion,
                                        drawReact)})
           /\ activity_count' = Put(activity_count, u, count)
           /\ user_message_history' =
                Put(user_message_history, u,
                    AppendHistory(Get(user_message_history, u, << >>), text))
           /\ arrived' = [arrived EXCEPT ![u] = Append(@, text)]
           /\ UNCHANGED << openai_client, clock, last_channel_reply,
                           last_user_reply, ticks, sched, http, start_time >>

\* the keyword branch once get_cat_meme() has returned: send the link, or
\* leave the branch with nothing sent
AfterMemeRaises(t, url) ==
  IF Truthy(url)
  THEN [t EXCEPT !.pc = "sending", !.meme_url = url, !.sends = @ + 1,
                 !.payload = "meme_link"]
  ELSE [t EXCEPT !.pc = "raised"]
AfterMemeFallsThrough(t, url) ==
  IF Truthy(url)
  THEN [t EXCEPT !.pc = "sending", !.meme_url = url, !.sends = @ + 1,
                 !.payload = "meme_link"]
  ELSE [t EXCEPT !.pc = "sending", !.sends = @ + 1,
                 !.payload = "cat_phrases"]
AfterMeme(t, url) ==
  IF Truthy(url)
  THEN [t EXCEPT !.pc = "sending", !.meme_url = url, !.sends = @ + 1,
                 !.payload = "meme_link"]
  ELSE [t EXCEPT !.pc = "commands"]

\* await get_cat_meme() returns in the keyword branch
MemeReturnsFrom(replies) ==
  \E t \in InFlight, reply \in replies :
        /\ t.pc = "fetching_meme"
        /\ tasks' = Resumed(t, AfterMeme(t, MemeResult[reply]))
        /\ UNCHANGED << openai_client, clock, store, ticks,
                        arrived, http, start_time, sched >>

MemeReturns == MemeReturnsFrom(MemeReplies)

\* await channel.send(...) / message.add_reaction(...) returns or raises;
\* then the cooldowns are updated if we responded
SendReturns ==
  \E t \in InFlight, ok \in BOOLEAN :
        /\ t.pc = "sending"
        /\ tasks' = Resumed(t, [t EXCEPT !.pc = "commands", !.responded = ok,
                                         !.sent = IF ok THEN "ok"
                                                  ELSE "rejected"])
        /\ last_channel_reply' =
             CooldownAfter(last_channel_reply, t.channel, t.now, ok)
        /\ last_user_reply' =
             CooldownAfter(last_user_reply, t.user, t.now, ok)
        /\ UNCHANGED << openai_client, clock, activity_count,
                        user_message_history, ticks, arrived, http, start_time, sched >>

\* await bot.process_commands(message) returns; the invocation ends
CommandsDone ==
  \E t \in InFlight :
    /\ t.pc = "commands"
    /\ tasks' = tasks (-) SetToBag({t})
    /\ UNCHANGED << openai_client, clock, store, ticks, arrived, http, start_time, sched >>

\* wall-clock time passes
Tick(steps) ==
  \E d \in steps :
    /\ ticks < MaxTicks
    /\ ticks' = ticks + 1
    /\ clock' = clock + d
    /\ UNCHANGED << openai_client, store, tasks, arrived, http, start_time, sched >>

NextIn(users, channels, steps, maxMsgs, maxKeyword, maxTasks) ==
  \/ OnBotMessage
  \/ OnMessage(users, channels, maxMsgs, maxKeyword, maxTasks)
  \/ MemeReturns
  \/ SendReturns
  \/ CommandsDone
  \/ Tick(steps)

Next == NextIn(Users, Channels, TimeSteps, MaxMessages, MaxMessages, MaxTasks)

\* every user and channel, one invocation at a time, a few messages
Spec == Init /\ [][Next]_vars

NextRace ==
  NextIn(Users, {"c1"}, TimeSteps, RaceMessages, RaceMessages, RaceTasks)

\* concurrent invocations in one channel, interleaved at their awaits
SpecRace == Init /\ [][NextRace]_vars

NextRetry ==
  NextIn({"u1"}, {"c1"}, TimeSteps, RaceMessages, RaceMessages, RaceTasks)

\* concurrent invocations for the messages of one user in one channel
SpecRetry == Init /\ [][NextRetry]_vars

NextDeep ==
  NextIn({"u1"}, {"c1"}, DeepSteps, DeepMessages, DeepKeywordMessages,
         DeepTasks)

\* one user in one channel, one invocation at a time, many messages
SpecDeep == Init /\ [][NextDeep]_vars

NextMeme ==
  \/ OnMessage({"u1"}, {"c1"}, MaxMessages, MaxMessages, MaxTasks)
  \/ MemeReturnsFrom(MemeReplies \cup VideoPageReplies)
  \/ SendReturns
  \/ CommandsDone
  \/ Tick(TimeSteps)

\* one user in one channel, with every answer of the meme API
SpecMeme == Init /\ [][NextMeme]_vars

NextCommands ==
  NextIn({"u1"}, {"c1"}, TimeSteps, MaxMessages, MaxMessages, MaxTasks)

\* one user in one channel, where every awaited fetch, send, reaction and
\* command processing returns or raises in the end
SpecCommands ==
  /\ Init
  /\ [][NextCommands]_vars
  /\ WF_vars(MemeReturns)
  /\ WF_vars(SendReturns)
  /\ WF_vars(CommandsDone)

\* time passes by exactly one of the two cooldowns
GateSteps == {CHANNEL_COOLDOWN, USER_COOLDOWN}

NextGate ==
  NextIn(Users, {"c1"}, GateSteps, MaxMessages, MaxMessages, MaxTasks)

\* messages that arrive exactly at the end of a cooldown
SpecGate == Init /\ [][NextGate]_vars

\* the store after nine messages of u1 that drew no response
InitActive ==
  /\ SchedStopped
  /\ openai_client \in BOOLEAN
  /\ clock = 0
  /\ last_channel_reply = EmptyDict
  /\ last_user_reply = EmptyDict
  /\ activity_count = [u \in {"u1"} |-> ACTIVE_THRESHOLD - 1]
  /\ user_message_history =
       [u \in {"u1"} |-> [i \in 1..(ACTIVE_THRESHOLD - 1) |-> "hello"]]
  /\ tasks = EmptyBag
  /\ ticks = 0
  /\ arrived = [u \in Users |->
                  IF u = "u1" THEN [i \in 1..(ACTIVE_THRESHOLD - 1) |-> "hello"]
                  ELSE << >>]
  /\ http = NoResponse
  /\ start_time = 0

NextActive ==
  NextIn(Users, {"c1"}, TimeSteps, ACTIVE_THRESHOLD - 1 + RaceMessages,
         RaceMessages, RaceTasks)

\* concurrent invocations around the moment a user becomes active
SpecActive == InitActive /\ [][NextActive]_vars

(***************************************************************************)
(* The web server: handle_root and handle_stats.                           *)
(***************************************************************************)
\* time.time() - getattr(bot, '_start_time', time.time())
Uptime == IF start_time = NoTime THEN 0 ELSE clock - start_time

\* the text of handle_root
handle_root == [path |-> "/", uptime |-> Uptime, servers |-> Len(guilds)]

\* the JSON of handle_stats
handle_stats_strict ==
  [ path |-> "/stats",
    servers |-> Len(guilds),
    users_tracked |-> Cardinality(DOMAIN activity_count),
    active_users |-> Cardinality({ u \in DOMAIN activity_count :
                                     activity_count[u] > STATS_ACTIVE_COUNT }),
    uptime |-> Uptime ]
handle_stats ==
  [ path |-> "/stats",
    servers |-> Len(guilds),
    users_tracked |-> Cardinality(DOMAIN activity_count),
    active_users |-> Cardinality({ u \in DOMAIN activity_count :
                                     activity_count[u] >= STATS_ACTIVE_COUNT }),
    uptime |-> Uptime ]

\* GET /
HandleRoot ==
  /\ http' = handle_root
  /\ UNCHANGED << openai_client, clock, store, tasks, ticks, arrived, sched,
                  start_time >>

\* GET /stats
HandleStats ==
  /\ http' = handle_stats
  /\ UNCHANGED << openai_client, clock, store, tasks, ticks, arrived, sched,
                  start_time >>

NextStats ==
  \/ NextIn(Users, {"c1"}, TimeSteps, ACTIVE_THRESHOLD - 1 + StatsMessages,
            StatsMessages, StatsMessages)
  \/ HandleRoot
  \/ HandleStats

\* requests to the web server around the moment a user becomes active
SpecStats == InitActive /\ [][NextStats]_vars

(***************************************************************************)
(* pick_channel_for_guild and get_all_target_channels.                     *)
(***************************************************************************)
\* a text channel with the permissions permissions_for(me) computes
TextChannels ==
  [name : ChannelNames, view_channel : BOOLEAN, send_messages : BOOLEAN]

SeqsUpTo(S, n) == UNION { [1..k -> S] : k \in 0..n }

\* no channel: guild.system_channel is None, or the function returns None
NoChannel == 0

\* a guild: its text channels in enumeration order and the position of its
\* system channel among them
AllGuilds ==
  { [system_channel |-> q[1], text_channels |-> q[2]] :
      q \in { r \in (0..MaxChannels) \X SeqsUpTo(TextChannels, MaxChannels) :
                r[1] <= Len(r[2]) } }

general_names ==
  { <<"g", "e", "n", "e", "r", "a", "l">>, <<"c", "h", "a", "t">>,
    <<"m", "a", "i", "n">>, <<"l", "o", "b", "b", "y">> }

\* any(name in channel.name.lower() for name in general_names)
IsGeneral(ch) ==
  \E name \in general_names : Contains(name, Lower(Chars(ch.name)))

\* perms.view_channel and perms.send_messages
Writable(ch) == ch.view_channel /\ ch.send_messages

Min(S) == CHOOSE x \in S : \A y \in S : x <= y

\* the first channel of cs, in enumeration order, that is in the set of
\* positions found, or None
FirstOf(found) == IF found = {} THEN NoChannel ELSE Min(found)

pick_channel_system_unchecked(guild) ==
  LET cs == guild.text_channels
      sys == guild.system_channel
      named == { i \in 1..Len(cs) : IsGeneral(cs[i]) /\ Writable(cs[i]) }
  IN  IF sys # NoChannel THEN sys
      ELSE IF named # {} THEN FirstOf(named)
      ELSE FirstOf({ i \in 1..Len(cs) : Writable(cs[i]) })
pick_channel_first_writable(guild) ==
  LET cs == guild.text_channels
      sys == guild.system_channel
  IN  IF sys # NoChannel /\ cs[sys].send_messages THEN sys
      ELSE FirstOf({ i \in 1..Len(cs) : Writable(cs[i]) })
pick_channel_unstable(guild) ==
  LET cs == guild.text_channels
      found == { i \in 1..Len(cs) : Writable(cs[i]) }
  IN  IF found = {} THEN NoChannel
      ELSE IF picks = << >> THEN Min(found)
      ELSE CHOOSE x \in found : \A y \in found : x >= y
pick_channel_for_guild(guild) ==
  LET cs == guild.text_channels
      sys == guild.system_channel
      named == { i \in 1..Len(cs) : IsGeneral(cs[i]) /\ Writable(cs[i]) }
  IN  IF sys # NoChannel /\ cs[sys].send_messages THEN sys
      ELSE IF named # {} THEN FirstOf(named)
      ELSE FirstOf({ i \in 1..Len(cs) : Writable(cs[i]) })

\* a caller (on_guild_join, get_all_target_channels) picks the channel of
\* one of the guilds
PickChannel ==
  /\ Len(picks) < MaxPicks
  /\ \E g \in 1..Len(guilds) :
       picks' = Append(picks, [guild |-> guilds[g],
                               result |-> pick_channel_for_guild(guilds[g])])
  /\ UNCHANGED << openai_client, clock, store, tasks, ticks, arrived, http, start_time,
                  guilds, updates, wall, interval, daily >>

\* the platform grants or withdraws the send permission in one channel
GuildUpdate ==
  /\ updates < MaxGuildUpdates
  /\ updates' = updates + 1
  /\ \E g \in 1..Len(guilds) : \E c \in 1..Len(guilds[g].text_channels) :
       guilds' = [guilds EXCEPT ![g].text_channels[c].send_messages = ~@]
  /\ UNCHANGED << openai_client, clock, store, tasks, ticks, arrived, http, start_time,
                  picks, wall, interval, daily >>

\* one guild of any shape, nothing picked yet
InitSelect ==
  /\ openai_client = FALSE
  /\ clock = 0
  /\ last_channel_reply = EmptyDict
  /\ last_user_reply = EmptyDict
  /\ activity_count = EmptyDict
  /\ user_message_history = EmptyDict
  /\ tasks = EmptyBag
  /\ ticks = 0
  /\ arrived = [u \in Users |-> << >>]
  /\ http = NoResponse
  /\ start_time = NoTime
  /\ guilds \in [1..1 -> AllGuilds]
  /\ picks = << >>
  /\ updates = 0
  /\ wall = 0
  /\ interval = IntervalStopped
  /\ daily = DailyStopped

NextSelect == PickChannel \/ GuildUpdate

\* the channel selector applied to every shape of guild
SpecSelect == InitSelect /\ [][NextSelect]_vars

(***************************************************************************)
(* on_ready and the two loops, cut at their await points.                  *)
(***************************************************************************)
\* the guilds a job of the model can be connected to: no system channel and
\* at most one text channel, which the bot can view
JobGuilds ==
  { g \in AllGuilds :
      /\ g.system_channel = NoChannel
      /\ Len(g.text_channels) <= 1
      /\ \A c \in 1..Len(g.text_channels) :
           g.text_channels[c].view_channel
             /\ g.text_channels[c].name = "General" }

\* get_all_target_channels(): the channel picked for each guild, in the
\* order of bot.guilds, without the guilds for which nothing was picked
\* channel.id of the channel picked for a guild: the key under which
\* on_message keeps the cooldown of that channel
ChannelIdOf(target) == IF target.guild = 1 THEN "c1" ELSE "c2"

get_all_target_channels_off_cooldown ==
  SelectSeq([g \in 1..Len(guilds) |->
               [guild |-> g, channel |-> pick_channel_for_guild(guilds[g])]],
            LAMBDA t : /\ t.channel # NoChannel
                       /\ ~ChannelGated(ChannelIdOf(t), clock))
get_all_target_channels_reversed ==
  LET found == SelectSeq([g \in 1..Len(guilds) |->
                            [guild |-> g,
                             channel |-> pick_channel_for_guild(guilds[g])]],
                         LAMBDA t : t.channel # NoChannel)
  IN  [k \in 1..Len(found) |-> found[Len(found) + 1 - k]]
get_all_target_channels_unfiltered ==
  [g \in 1..Len(guilds) |->
     [guild |-> g, channel |-> pick_channel_for_guild(guilds[g])]]
get_all_target_channels ==
  SelectSeq([g \in 1..Len(guilds) |->
               [guild |-> g, channel |-> pick_channel_for_guild(guilds[g])]],
            LAMBDA t : t.channel # NoChannel)

\* what a loop writes down when it is done with a target
Served(job, ok) ==
  [ target |-> job.targets[job.i], payload |-> job.payload,
    meme_url |-> job.meme_url, fetches |-> job.fetches, sends |-> job.sends, ok |-> ok ]

\* on_ready: each loop is started unless it is running
\* loop.start() unless loop.is_running(): a stopped loop gets its one task,
\* created now; a running loop is left alone
start_always(job, started, now) ==
  IF job.pc = "stopped" THEN [started EXCEPT !.started = now]
  ELSE [job EXCEPT !.starts = @ + 1, !.started = now]
start_unless_running(job, started, now) ==
  IF job.pc = "stopped" THEN [started EXCEPT !.started = now] ELSE job

OnReady ==
  /\ start_time' = clock
  /\ interval' = start_unless_running(interval, IntervalStarted, clock)
  /\ daily' = start_unless_running(daily, DailyStarted, clock)
  /\ UNCHANGED << openai_client, clock, store, tasks, ticks, arrived, http,
                  guilds, picks, updates, wall >>

\* send_cat_stuff at the top of its for loop: the next target, if any, gets
\* a phrase (coin) or a meme fetch; with no target left the firing is over
IntervalAt(job, coin) ==
  IF job.i > Len(job.targets)
  THEN [job EXCEPT !.pc = "waiting", !.payload = None, !.meme_url = None,
                   !.fetches = 0,
                   !.sends = 0, !.firings = @ + 1]
  ELSE IF coin
  THEN [job EXCEPT !.pc = "sending", !.payload = "cat_phrases",
                   !.meme_url = None, !.fetches = 0, !.sends = 1]
  ELSE [job EXCEPT !.pc = "fetching", !.payload = None, !.meme_url = None,
                   !.fetches = 1,
                   !.sends = 0]

\* the loop's timer fires: the targets are resolved and the first is served
IntervalFires ==
  /\ interval.pc = "waiting"
  /\ interval.firings < MaxFirings
  /\ LET job == [interval EXCEPT !.targets = get_all_target_channels,
                                 !.i = 1, !.log = << >>]
     IN  \E coin \in DrawIf(job.targets # << >>, BOOLEAN, FALSE) :
           interval' = IntervalAt(job, coin)
  /\ UNCHANGED << openai_client, clock, store, tasks, ticks, arrived, http, start_time,
                  guilds, picks, updates, wall, daily >>

\* send_cat_stuff once get_cat_meme() has returned: the link, or a phrase
IntervalAfterMemeNoFallback(job, url) ==
  IF Truthy(url)
  THEN [job EXCEPT !.pc = "sending", !.payload = "meme_link",
                   !.meme_url = url, !.sends = 1]
  ELSE [job EXCEPT !.pc = "sending", !.payload = None, !.sends = 0]
IntervalAfterMeme(job, url) ==
  IF Truthy(url)
  THEN [job EXCEPT !.pc = "sending", !.payload = "meme_link",
                   !.meme_url = url, !.sends = 1]
  ELSE [job EXCEPT !.pc = "sending", !.payload = "cat_phrases", !.sends = 1]

\* await get_cat_meme() returns in send_cat_stuff
IntervalMemeReturns ==
  /\ interval.pc = "fetching"
  /\ \E reply \in MemeReplies :
       interval' = IntervalAfterMeme(interval, MemeResult[reply])
  /\ UNCHANGED << openai_client, clock, store, tasks, ticks, arrived, http, start_time,
                  guilds, picks, updates, wall, daily >>

\* send_cat_stuff once channel.send() has returned or raised: the target
\* is done either way and the for loop goes on
IntervalAfterSendCancels(job, ok, coin) ==
  LET done == [job EXCEPT !.log = Append(@, Served(job, ok))]
  IN  IF ok THEN IntervalAt([done EXCEPT !.i = @ + 1], coin)
      ELSE [done EXCEPT !.pc = "cancelled"]
IntervalAfterSendAborts(job, ok, coin) ==
  LET done == [job EXCEPT !.log = Append(@, Served(job, ok))]
  IN  IF ok THEN IntervalAt([done EXCEPT !.i = @ + 1], coin)
      ELSE IntervalAt([done EXCEPT !.i = Len(job.targets) + 1], coin)
IntervalAfterSend(job, ok, coin) ==
  IntervalAt([job EXCEPT !.log = Append(@, Served(job, ok)), !.i = @ + 1],
             coin)

\* await channel.send(...) returns or raises in send_cat_stuff
IntervalSendReturns ==
  /\ interval.pc = "sending"
  /\ \E ok \in BOOLEAN :
     \E coin \in DrawIf(interval.i < Len(interval.targets), BOOLEAN, FALSE) :
       interval' = IntervalAfterSend(interval, ok, coin)
  /\ UNCHANGED << openai_client, clock, store, tasks, ticks, arrived, http, start_time,
                  guilds, picks, updates, wall, daily >>

\* slots of a day of the wall clock
DayLen == HOURS_PER_DAY * SlotsPerHour

\* datetime.datetime.combine(now.date(), datetime.time(DAILY_HOUR, 0)),
\* plus a day if now > target_time
first_run_always_today(now) ==
  (now \div DayLen) * DayLen + DAILY_HOUR * SlotsPerHour
first_run(now) ==
  LET target_time == (now \div DayLen) * DayLen + DAILY_HOUR * SlotsPerHour
  IN  IF now > target_time THEN target_time + DayLen ELSE target_time

\* before_daily_cat_meme at its asyncio.sleep
before_loop_no_sleep(job, now) ==
  [job EXCEPT !.pc = "waiting_anchor", !.invoked = now,
              !.target = first_run(now), !.due = now, !.waits = @ + 1]
before_daily_cat_meme(job, now) ==
  [job EXCEPT !.pc = "waiting_anchor", !.invoked = now,
              !.target = first_run(now), !.due = first_run(now),
              !.waits = @ + 1]

\* the started loop runs its before_loop hook, once
DailyBeforeLoop ==
  /\ daily.pc = "starting"
  /\ daily' = before_daily_cat_meme(daily, wall)
  /\ UNCHANGED << openai_client, clock, store, tasks, ticks, arrived, http, start_time,
                  guilds, picks, updates, wall, interval >>

\* daily_cat_meme at the top of its for loop: the next target, if any, gets
\* a meme fetch; with no target left the firing is over
DailyAt(job) ==
  IF job.i > Len(job.targets)
  THEN [job EXCEPT !.pc = "waiting", !.payload = None, !.meme_url = None,
                   !.fetches = 0,
                   !.sends = 0]
  ELSE [job EXCEPT !.pc = "fetching", !.payload = None, !.meme_url = None,
                   !.fetches = 1,
                   !.sends = 0]

\* the time of the iteration after the one at time last
next_iteration(last) == last + DayLen

\* the sleep of the loop ends: the firing starts with the first target
DailyFires ==
  /\ daily.pc \in {"waiting_anchor", "waiting"}
  /\ wall >= daily.due
  /\ Len(daily.fired) < MaxFirings
  /\ daily' = DailyAt([daily EXCEPT !.targets = get_all_target_channels,
                                    !.i = 1, !.log = << >>,
                                    !.fired = Append(@, wall),
                                    !.due = next_iteration(daily.due)])
  /\ UNCHANGED << openai_client, clock, store, tasks, ticks, arrived, http, start_time,
                  guilds, picks, updates, wall, interval >>

\* daily_cat_meme once get_cat_meme() has returned: the embed is sent, or
\* the target is done with nothing sent
DailyAfterMemeFallsBack(job, url) ==
  IF Truthy(url)
  THEN [job EXCEPT !.pc = "sending", !.payload = "embed",
                   !.meme_url = url, !.sends = 1]
  ELSE [job EXCEPT !.pc = "sending", !.payload = "cat_phrases", !.sends = 1]
DailyAfterMeme(job, url) ==
  IF Truthy(url)
  THEN [job EXCEPT !.pc = "sending", !.payload = "embed",
                   !.meme_url = url, !.sends = 1]
  ELSE DailyAt([job EXCEPT !.log = Append(@, Served(job, FALSE)),
                           !.i = @ + 1])

\* await get_cat_meme() returns in daily_cat_meme
DailyMemeReturns ==
  /\ daily.pc = "fetching"
  /\ \E reply \in MemeReplies :
       daily' = DailyAfterMeme(daily, MemeResult[reply])
  /\ UNCHANGED << openai_client, clock, store, tasks, ticks, arrived, http, start_time,
                  guilds, picks, updates, wall, interval >>

\* await channel.send(embed=embed) returns or raises in daily_cat_meme
DailySendReturns ==
  /\ daily.pc = "sending"
  /\ \E ok \in BOOLEAN :
       daily' = DailyAt([daily EXCEPT !.log = Append(@, Served(daily, ok)),
                                      !.i = @ + 1])
  /\ UNCHANGED << openai_client, clock, store, tasks, ticks, arrived, http, start_time,
                  guilds, picks, updates, wall, interval >>

\* the wall clock reaches the time the sleeping daily loop is due
WallSleep ==
  /\ daily.pc \in {"waiting_anchor", "waiting"}
  /\ wall < daily.due
  /\ Len(daily.fired) < MaxFirings
  /\ wall' = daily.due
  /\ UNCHANGED << openai_client, clock, store, tasks, ticks, arrived, http, start_time,
                  guilds, picks, updates, interval, daily >>

\* the wall clock moves on by a slot while the daily loop awaits a fetch
\* or a send
WallTick ==
  /\ daily.pc \in {"fetching", "sending"}
  /\ ticks < MaxTicks
  /\ ticks' = ticks + 1
  /\ wall' = wall + 1
  /\ UNCHANGED << openai_client, clock, store, tasks, arrived, http, start_time,
                  guilds, picks, updates, interval, daily >>

\* the process starts at some time of day 0, connected to some guilds
InitJobs(startTimes) ==
  /\ openai_client = FALSE
  /\ clock = 0
  /\ last_channel_reply = EmptyDict
  /\ last_user_reply = EmptyDict
  /\ activity_count = EmptyDict
  /\ user_message_history = EmptyDict
  /\ tasks = EmptyBag
  /\ ticks = 0
  /\ arrived = [u \in Users |-> << >>]
  /\ http = NoResponse
  /\ start_time = NoTime
  /\ guilds \in SeqsUpTo(JobGuilds, MaxGuilds)
  /\ picks = << >>
  /\ updates = 0
  /\ wall \in startTimes
  /\ interval = IntervalStopped
  /\ daily = DailyStopped

NextInterval ==
  \/ OnReady
  \/ IntervalFires
  \/ IntervalMemeReturns
  \/ IntervalSendReturns

\* the interval loop over every list of guilds
SpecInterval == InitJobs({0}) /\ [][NextInterval]_vars

NextDaily ==
  \/ OnReady
  \/ DailyBeforeLoop
  \/ DailyFires
  \/ DailyMemeReturns
  \/ DailySendReturns
  \/ WallSleep
  \/ WallTick

\* the daily loop started at every slot of a day, over every list of guilds
SpecDaily == InitJobs(0..(DayLen - 1)) /\ [][NextDaily]_vars

\* the process starts at the daily hour, in a guild with a channel to write to
InitMixed ==
  /\ openai_client = FALSE
  /\ clock = 0
  /\ last_channel_reply = EmptyDict
  /\ last_user_reply = EmptyDict
  /\ activity_count = EmptyDict
  /\ user_message_history = EmptyDict
  /\ tasks = EmptyBag
  /\ ticks = 0
  /\ arrived = [u \in Users |-> << >>]
  /\ http = NoResponse
  /\ start_time = NoTime
  /\ guilds \in { << g >> : g \in { h \in JobGuilds :
                                      pick_channel_for_guild(h) # NoChannel } }
  /\ picks = << >>
  /\ updates = 0
  /\ wall = DAILY_HOUR * SlotsPerHour
  /\ interval = IntervalStopped
  /\ daily = DailyStopped

\* message handling in the channel the loops write to, and both loops, all
\* within one reading of the clock
NextMixed ==
  \/ OnBotMessage
  \/ OnMessage({"u1"}, {"c1"}, MixedMessages, MixedMessages, MixedMessages)
  \/ MemeReturns
  \/ SendReturns
  \/ CommandsDone
  \/ OnReady
  \/ IntervalFires /\ interval.firings < JobsFirings
  \/ IntervalMemeReturns
  \/ IntervalSendReturns
  \/ DailyBeforeLoop
  \/ DailyFires /\ Len(daily.fired) < JobsFirings
  \/ DailyMemeReturns
  \/ DailySendReturns

\* the loops interleaved with the handling of messages
SpecMixed == InitMixed /\ [][NextMixed]_vars

\* ready events at any time while the interval loop runs and the daily
\* loop waits for its hour
NextReady ==
  \/ OnReady
  \/ Tick(TimeSteps)
  \/ IntervalFires /\ interval.firings < JobsFirings
  \/ IntervalMemeReturns
  \/ IntervalSendReturns
  \/ DailyBeforeLoop

SpecReady == InitJobs({0}) /\ [][NextReady]_vars

\* both loops, each for a few firings
NextJobs ==
  \/ OnReady
  \/ IntervalFires /\ interval.firings < JobsFirings
  \/ IntervalMemeReturns
  \/ IntervalSendReturns
  \/ DailyBeforeLoop
  \/ DailyFires /\ Len(daily.fired) < JobsFirings
  \/ DailyMemeReturns
  \/ DailySendReturns
  \/ WallSleep /\ Len(daily.fired) < JobsFirings

\* both loops side by side, started at midnight, over every list of guilds
SpecJobs == InitJobs({0}) /\ [][NextJobs]_vars

\* the same, where every awaited fetch and send returns or raises in the end
SpecJobsFair ==
  /\ InitJobs({0})
  /\ [][NextJobs]_vars
  /\ WF_vars(IntervalMemeReturns)
  /\ WF_vars(IntervalSendReturns)
  /\ WF_vars(DailyMemeReturns)
  /\ WF_vars(DailySendReturns)

(***************************************************************************)
(* Properties.                                                             *)
(***************************************************************************)
\* this step dispatches a non-bot message of user u in channel c and starts
\* invocation t
Arrival(u, c, t) ==
  /\ arrived'[u] # arrived[u]
  /\ CopiesIn(t, tasks') = CopiesIn(t, tasks) + 1
  /\ t.user = u
  /\ t.channel = c

\* invocation t has called no provider and attempted no send or reaction,
\* and only command processing is left of it
Silent(t) ==
  /\ t.pc = "commands"
  /\ t.sends = 0 /\ t.reactions = 0
  /\ t.memeCalls = 0 /\ t.completionCalls = 0
  /\ ~t.responded

CooldownsUnchanged ==
  last_channel_reply' = last_channel_reply /\ last_user_reply' = last_user_reply

\* the step counted the message of u and appended its text to u's history
Tracked(u) ==
  /\ activity_count'[u] =
       (IF u \in DOMAIN activity_count THEN activity_count[u] ELSE 0) + 1
  /\ user_message_history'[u][Len(user_message_history'[u])] =
       arrived'[u][Len(arrived'[u])]

\* C1: a message that arrives while now - last_channel_reply[channel] <
\* CHANNEL_COOLDOWN runs no response branch (no send, no reaction, no
\* provider call, cooldown maps unchanged), yet the sender's activity count
\* grows by one and the text is appended to the sender's history.
C1_ChannelCooldownGates ==
  [][ \A u \in Users, c \in Channels : \A t \in BagToSet(tasks') :
        ( /\ Arrival(u, c, t)
          /\ c \in DOMAIN last_channel_reply
          /\ clock - last_channel_reply[c] < CHANNEL_COOLDOWN )
        => Silent(t) /\ CooldownsUnchanged /\ Tracked(u) ]_vars

\* a message gated by the channel cooldown alone (its sender has none) is
\* counted and awaits only command processing
C1_Witness ==
  \E t \in InFlight :
    /\ t.pc = "commands" /\ t.sends = 0 /\ t.reactions = 0
    /\ t.channel \in DOMAIN last_channel_reply
    /\ t.now - last_channel_reply[t.channel] < CHANNEL_COOLDOWN
    /\ t.user \notin DOMAIN last_user_reply
    /\ activity_count[t.user] = 1

\* C2: a message whose sender satisfies now - last_user_reply[user] <
\* USER_COOLDOWN produces no outbound action and leaves both cooldown maps
\* unchanged, in whatever channel it arrives, also one with no cooldown
\* entry or an expired one.
C2_UserCooldownGates ==
  [][ \A u \in Users, c \in Channels : \A t \in BagToSet(tasks') :
        ( /\ Arrival(u, c, t)
          /\ u \in DOMAIN last_user_reply
          /\ clock - last_user_reply[u] < USER_COOLDOWN )
        => Silent(t) /\ CooldownsUnchanged ]_vars

\* a message gated by the user cooldown in a channel that never had a reply,
\* at a time when the channel of the earlier reply has expired
C2_Witness ==
  \E t \in InFlight :
    /\ t.pc = "commands" /\ t.sends = 0 /\ t.reactions = 0
    /\ t.user \in DOMAIN last_user_reply
    /\ t.now - last_user_reply[t.user] < USER_COOLDOWN
    /\ t.channel \notin DOMAIN last_channel_reply
    /\ \E c \in DOMAIN last_channel_reply :
         t.now - last_channel_reply[c] >= CHANNEL_COOLDOWN

\* C4: an invocation attempts at most one outbound action, a send or a
\* reaction, and its branches exclude each other: the meme provider is
\* called only in the keyword branch, the completion provider only in the
\* augmented branch, a reaction is added only in the fallback branch.
C4_AtMostOneOutbound ==
  \A t \in InFlight :
    /\ t.sends + t.reactions <= 1
    /\ t.memeCalls + t.completionCalls <= 1
    /\ t.memeCalls = 1 => t.reactions = 0 /\ t.payload \in {None, "meme_link"}
    /\ t.completionCalls = 1 =>
         t.reactions = 0 /\ t.payload \in {"intelligent", "personal_responses"}
    /\ t.reactions = 1 => t.payload = "reactions"

\* a fallback invocation that added its reaction and sent nothing else
C4_Witness ==
  \E t \in InFlight :
    t.pc = "commands" /\ t.reactions = 1 /\ t.sends = 0 /\ t.responded

\* invocations past the cooldown gate whose cooldown write is still ahead
Pending(t) == t.pc \in {"fetching_meme", "sending"}

\* C3: the cooldown check-then-set of an invocation is atomic: no second
\* invocation for the same channel or the same user passes the gate after
\* the first has passed it and before the first has written the cooldowns.
C3_CheckThenSetAtomic ==
  \A t \in InFlight :
    Pending(t) =>
      /\ CopiesIn(t, tasks) = 1
      /\ \A r \in InFlight \ {t} :
           Pending(r) => r.channel # t.channel /\ r.user # t.user

\* neither cooldown closes the gate for a message of u in c arriving now
GateOpen(u, c) ==
  /\ c \in DOMAIN last_channel_reply =>
       clock - last_channel_reply[c] >= CHANNEL_COOLDOWN
  /\ u \in DOMAIN last_user_reply =>
       clock - last_user_reply[u] >= USER_COOLDOWN

\* the text of the message of u that this step delivered
ArrivedText(u) == arrived'[u][Len(arrived'[u])]

\* this step resumes invocation t, which continues as r
Resumes(t, r) ==
  /\ t # r
  /\ CopiesIn(t, tasks') = CopiesIn(t, tasks) - 1
  /\ CopiesIn(r, tasks') = CopiesIn(r, tasks) + 1
  /\ r.user = t.user /\ r.channel = t.channel /\ r.now = t.now

\* this step ends the send or reaction that invocation t awaited
SendDone(t, r) == t.pc = "sending" /\ r.pc = "commands" /\ Resumes(t, r)

\* after this step both cooldowns of invocation t hold the time v
CooldownsSetTo(t, v) ==
  /\ t.channel \in DOMAIN last_channel_reply'
  /\ last_channel_reply'[t.channel] = v
  /\ t.user \in DOMAIN last_user_reply'
  /\ last_user_reply'[t.user] = v

\* C5: with the gate open, a text holding a keyword runs the keyword branch
\* and no other: the meme provider is called once, and when it fails or
\* returns nothing the invocation attempts no send and no reaction, calls no
\* completion, and leaves the cooldown maps unchanged.
C5_KeywordBranchOnly ==
  /\ [][ \A u \in Users, c \in Channels : \A t \in BagToSet(tasks') :
           (Arrival(u, c, t) /\ GateOpen(u, c) /\ HasKeyword(ArrivedText(u)))
           => /\ t.pc = "fetching_meme" /\ t.branch = "keyword"
              /\ t.memeCalls = 1 /\ t.completionCalls = 0
              /\ t.sends = 0 /\ t.reactions = 0 ]_vars
  /\ [][ \A t \in InFlight : \A r \in BagToSet(tasks') :
           (t.pc = "fetching_meme" /\ Resumes(t, r))
           => /\ CooldownsUnchanged
              /\ r.memeCalls = 1 /\ r.completionCalls = 0 /\ r.reactions = 0
              /\ ~Truthy(r.meme_url) => Silent([r EXCEPT !.memeCalls = 0])
         ]_vars

\* a keyword invocation whose fetch failed: one provider call, nothing sent,
\* no cooldown entry
C5_Witness ==
  \E t \in InFlight :
    /\ t.branch = "keyword" /\ t.pc = "commands" /\ ~Truthy(t.meme_url)
    /\ t.memeCalls = 1 /\ t.sends = 0
    /\ DOMAIN last_channel_reply = {} /\ DOMAIN last_user_reply = {}

C7_ActiveAlwaysAugmented ==
  [][ \A u \in Users, c \in Channels : \A t \in BagToSet(tasks') :
        ( /\ Arrival(u, c, t) /\ GateOpen(u, c)
          /\ ~HasKeyword(ArrivedText(u))
          /\ activity_count'[u] >= ACTIVE_THRESHOLD )
        => t.branch = "augmented" /\ t.completionCalls = 1 ]_vars

\* C7 amended: the same when the completion client is configured; no random
\* draw can keep the message out of the augmented branch.
C7_ActiveAugmentedWithClient ==
  [][ \A u \in Users, c \in Channels : \A t \in BagToSet(tasks') :
        ( /\ Arrival(u, c, t) /\ GateOpen(u, c)
          /\ ~HasKeyword(ArrivedText(u))
          /\ activity_count'[u] >= ACTIVE_THRESHOLD
          /\ openai_client )
        => t.branch = "augmented" /\ t.completionCalls = 1 ]_vars

\* the tenth message of a user is in the augmented branch
C7_Witness ==
  \E t \in InFlight :
    /\ t.branch = "augmented" /\ t.completionCalls = 1
    /\ activity_count[t.user] = ACTIVE_THRESHOLD
    /\ openai_client

\* the augmented invocation t got nothing from the completion provider and
\* attempts one send of a personal phrase addressed to its user
PersonalFallback(t) ==
  /\ t.sends = 1 /\ t.reactions = 0
  /\ t.payload = "personal_responses"
  /\ t.addressee = DisplayName(t.user)

\* C8 as stated: when the augmented branch got nothing from the provider,
\* one personal phrase addressed to the sender is sent and both cooldowns
\* are then set.
C8_PersonalFallbackSetsCooldowns ==
  [][ \A t \in InFlight : \A r \in BagToSet(tasks') :
        ( /\ SendDone(t, r) /\ t.branch = "augmented"
          /\ ~Truthy(t.intelligent_response) )
        => /\ PersonalFallback(r)
           /\ CooldownsSetTo(t, t.now) ]_vars

\* C8 amended: one send of a personal phrase addressed to the sender is
\* attempted; when the gateway accepts it both cooldowns are set to the
\* invocation's now, when it rejects it they stay unchanged.
C8_PersonalFallbackAttempted ==
  /\ [] (\A t \in InFlight :
           (t.branch = "augmented" /\ ~Truthy(t.intelligent_response))
           => PersonalFallback(t))
  /\ [][ \A t \in InFlight : \A r \in BagToSet(tasks') :
           ( /\ SendDone(t, r) /\ t.branch = "augmented"
             /\ ~Truthy(t.intelligent_response) )
           => IF r.sent = "ok"
              THEN CooldownsSetTo(t, t.now)
              ELSE CooldownsUnchanged ]_vars

\* the provider answered only whitespace; the personal phrase went out and
\* the cooldowns were set
C8_Witness ==
  \E t \in InFlight :
    /\ t.pc = "commands" /\ t.branch = "augmented"
    /\ t.completionCalls = 1 /\ t.intelligent_response = ""
    /\ PersonalFallback(t) /\ t.responded
    /\ last_channel_reply[t.channel] = t.now
    /\ last_user_reply[t.user] = t.now

\* dict d with d[key] = v and nothing else changed
Assigned(d, key, v) ==
  [x \in (DOMAIN d) \cup {key} |-> IF x = key THEN v ELSE d[x]]

\* C9: the step in which a branch's send or reaction succeeds sets both
\* cooldowns of the invocation to its now and changes no other entry; every
\* other step of on_message (gate closed, fetch failed, draws declined, send
\* rejected) leaves both maps exactly as they were.
C9_CooldownsFollowResponse ==
  [][ IF \E t \in InFlight : \E r \in BagToSet(tasks') :
           SendDone(t, r) /\ r.sent = "ok"
      THEN \E t \in InFlight : \E r \in BagToSet(tasks') :
             /\ SendDone(t, r) /\ r.sent = "ok"
             /\ last_channel_reply' =
                  Assigned(last_channel_reply, t.channel, t.now)
             /\ last_user_reply' = Assigned(last_user_reply, t.user, t.now)
      ELSE CooldownsUnchanged ]_vars

\* a phrase of the fallback branch was rejected by the gateway while an
\* earlier response of another user keeps its cooldown entries
C9_Witness ==
  \E t \in InFlight :
    /\ t.pc = "commands" /\ t.payload = "cat_phrases" /\ t.sent = "rejected"
    /\ t.user \notin DOMAIN last_user_reply
    /\ t.channel \notin DOMAIN last_channel_reply
    /\ DOMAIN last_user_reply # {}

C11_CountIsMessagesSeen ==
  /\ [] (\A u \in Users : Get(activity_count, u, 0) = Len(arrived[u]))
  /\ [][ \A u \in Users :
           /\ Get(activity_count', u, 0) >= Get(activity_count, u, 0)
           /\ IsActive(Get(activity_count, u, 0))
                => IsActive(Get(activity_count', u, 0)) ]_vars

\* the eleventh message of a user was counted while an earlier invocation
\* was still in flight, and no response was ever made
C11_Witness ==
  \E u \in Users :
    /\ u \in DOMAIN activity_count
    /\ activity_count[u] = ACTIVE_THRESHOLD + 1
    /\ BagCardinality(tasks) = 2
    /\ DOMAIN last_user_reply = {}

\* nine messages of u1 were handled to the end and none drew a response
InitActiveReached ==
  /\ tasks = EmptyBag /\ clock = 0
  /\ DOMAIN last_channel_reply = {} /\ DOMAIN last_user_reply = {}
  /\ arrived = [u \in Users |->
                  IF u = "u1" THEN [i \in 1..(ACTIVE_THRESHOLD - 1) |-> "hello"]
                  ELSE << >>]
  /\ activity_count = [u \in {"u1"} |-> ACTIVE_THRESHOLD - 1]
  /\ user_message_history = [u \in {"u1"} |-> arrived[u]]


\* C19: on_message never ends with an exception: every invocation in flight
\* is suspended at one of the handler's awaits, and when the meme provider
\* fails, the completion provider fails or the gateway rejects the send or
\* the reaction, the invocation goes on to command processing, its last
\* step.
C19_NeverPropagates ==
  /\ [] (\A t \in InFlight :
           /\ t.pc \in {"fetching_meme", "sending", "commands"}
           /\ (t.sent = "rejected") => t.pc = "commands")
  /\ [][ \A t \in InFlight : \A r \in BagToSet(tasks') :
           ( /\ Resumes(t, r)
             /\ \/ t.pc = "fetching_meme" /\ ~Truthy(r.meme_url)
                \/ t.pc = "sending" /\ r.sent = "rejected" )
           => r.pc = "commands" ]_vars

\* the completion provider failed and the gateway then rejected the
\* personal phrase; the invocation is at command processing
C19_Witness ==
  \E t \in InFlight :
    /\ t.branch = "augmented" /\ t.completionCalls = 1
    /\ t.intelligent_response = None
    /\ t.sent = "rejected" /\ t.pc = "commands"


\* position of the system channel when the bot may send there, else none
SystemWritable(g) ==
  g.system_channel # NoChannel
    /\ g.text_channels[g.system_channel].send_messages

\* positions of the channels named General (general when lower-cased) that
\* the bot can view and send to, and of all channels it can view and send to
NamedTargets(g) ==
  { i \in 1..Len(g.text_channels) :
      /\ g.text_channels[i].name = "General"
      /\ g.text_channels[i].view_channel
      /\ g.text_channels[i].send_messages }
OpenTargets(g) ==
  { i \in 1..Len(g.text_channels) :
      g.text_channels[i].view_channel /\ g.text_channels[i].send_messages }

C13_PickTieBreak ==
  \A k \in 1..Len(picks) :
    LET g == picks[k].guild
        r == picks[k].result
    IN  IF SystemWritable(g) THEN r = g.system_channel
        ELSE IF NamedTargets(g) # {}
             THEN r \in NamedTargets(g)
                  /\ \A j \in NamedTargets(g) : r <= j
        ELSE IF OpenTargets(g) # {}
             THEN r \in OpenTargets(g) /\ \A j \in OpenTargets(g) : r <= j
        ELSE r = NoChannel

\* an unnamed writable channel is enumerated before the writable General,
\* there is no system channel, and General was picked
C13_Witness ==
  \E k \in 1..Len(picks) :
    LET g == picks[k].guild
    IN  /\ g.system_channel = NoChannel
        /\ Len(g.text_channels) = 2
        /\ g.text_channels[1].name = "random"
        /\ 1 \in OpenTargets(g)
        /\ NamedTargets(g) = {2}
        /\ picks[k].result = 2


\* today's DAILY_HOUR:00:00 on the day of the time now
TodayAnchor(now) == (now \div DayLen) * DayLen + DAILY_HOUR * SlotsPerHour

\* before_daily_cat_meme has computed the first run time
AnchorComputed == daily.pc \notin {"stopped", "starting"}

\* C14 as stated: the first run time is strictly later than the time of the
\* computation; it is today's anchor when the anchor has not passed yet and
\* tomorrow's otherwise, also for a computation at the anchor instant.
C14_FirstRunStrictlyFuture ==
  AnchorComputed =>
    /\ daily.target > daily.invoked
    /\ daily.invoked < TodayAnchor(daily.invoked)
         => daily.target = TodayAnchor(daily.invoked)
    /\ daily.invoked >= TodayAnchor(daily.invoked)
         => daily.target = TodayAnchor(daily.invoked) + DayLen

\* C14 amended: the first run time is never earlier than the time of the
\* computation; it is today's anchor when the anchor has not passed yet or
\* is this very instant (then the wait is zero), and tomorrow's anchor when
\* the anchor has passed.
C14_FirstRunNotPast ==
  AnchorComputed =>
    /\ daily.target >= daily.invoked
    /\ daily.target = daily.invoked
         <=> daily.invoked = TodayAnchor(daily.invoked)
    /\ daily.invoked <= TodayAnchor(daily.invoked)
         => daily.target = TodayAnchor(daily.invoked)
    /\ daily.invoked > TodayAnchor(daily.invoked)
         => daily.target = TodayAnchor(daily.invoked) + DayLen

\* the computation ran at the anchor instant and the first run is now
C14_Witness ==
  /\ AnchorComputed
  /\ daily.invoked = TodayAnchor(daily.invoked)
  /\ daily.target = daily.invoked
  /\ daily.pc = "waiting_anchor"

\* C15: the daily loop serves no target before its anchor wait is over:
\* the anchor is computed once, the first firing is at the computed first
\* run time, an instant of DAILY_HOUR:00 not before the computation, and
\* each later firing is 24 hours after the one before.
C15_AnchorWaitOnce ==
  daily.pc # "stopped" =>
  LET fired == daily.fired
  IN  /\ daily.waits <= 1
      /\ daily.pc \in {"fetching", "sending"} \/ daily.log # << >>
           => Len(fired) >= 1
      /\ Len(fired) >= 1 =>
           /\ daily.waits = 1
           /\ fired[1] = daily.target
           /\ fired[1] >= daily.invoked
           /\ fired[1] % DayLen = DAILY_HOUR * SlotsPerHour
      /\ \A k \in 2..Len(fired) : fired[k] = fired[k - 1] + DayLen

\* started after today's anchor, the loop fired tomorrow and again a day
\* later, with one anchor wait
C15_Witness ==
  /\ daily.pc # "stopped"
  /\ Len(daily.fired) = 2
  /\ daily.waits = 1
  /\ daily.invoked > TodayAnchor(daily.invoked)
  /\ daily.fired[2] = daily.fired[1] + DayLen
  /\ daily.log # << >>

\* pick_channel_for_guild finds a channel in guild g
Resolvable(g) == SystemWritable(guilds[g]) \/ OpenTargets(guilds[g]) # {}

\* the targets served so far in the firing of a loop, and their guilds
LogOf(job) == IF job.pc = "stopped" THEN << >> ELSE job.log
ServedGuilds(job) == { LogOf(job)[k].target.guild : k \in 1..Len(LogOf(job)) }

\* a firing of the interval loop is over
IntervalDone == interval.pc = "waiting" /\ interval.firings >= 1

\* C16: when a firing of the interval loop is over, every guild with a
\* resolvable channel was served in it, whichever earlier targets had a
\* rejected send or a failed fetch.
C16_FailureNeverAborts ==
  IntervalDone =>
    \A g \in 1..Len(guilds) : Resolvable(g) => g \in ServedGuilds(interval)

\* the send to the first guild was rejected, after a failed fetch, and the
\* second guild was served all the same
C16_Witness ==
  /\ IntervalDone
  /\ Len(interval.log) = 2
  /\ ~interval.log[1].ok
  /\ interval.log[1].fetches = 1 /\ ~Truthy(interval.log[1].meme_url)
  /\ interval.log[2].target.guild = 2

\* C17: in a firing of the interval loop every target served got exactly
\* one send attempt: a phrase without a fetch, the link when the fetch
\* succeeded, a phrase when the fetch failed; no target is served twice,
\* so a rejected send is not retried.
C17_OneSendPerTarget ==
  /\ \A k \in 1..Len(LogOf(interval)) :
       LET e == interval.log[k]
       IN  /\ e.sends = 1
           /\ e.fetches \in {0, 1}
           /\ e.fetches = 0 => e.payload = "cat_phrases"
           /\ e.fetches = 1 /\ Truthy(e.meme_url) => e.payload = "meme_link"
           /\ e.fetches = 1 /\ ~Truthy(e.meme_url)
                => e.payload = "cat_phrases"
           /\ \A j \in 1..Len(LogOf(interval)) :
                j # k => interval.log[j].target # e.target
  /\ IntervalDone =>
       Len(interval.log) =
         Cardinality({ g \in 1..Len(guilds) : Resolvable(g) })

\* the fetch failed, the phrase sent in its place was rejected, and the
\* firing ended with one entry for the target
C17_Witness ==
  /\ IntervalDone
  /\ Len(interval.log) = 1
  /\ interval.log[1].fetches = 1
  /\ interval.log[1].payload = "cat_phrases"
  /\ interval.log[1].sends = 1
  /\ ~interval.log[1].ok

\* a firing of the daily loop is over
DailyDone == daily.pc = "waiting" /\ Len(daily.fired) >= 1

\* C18: in a firing of the daily loop every target served got exactly one
\* meme fetch; when the fetch failed nothing was sent to it, when it
\* succeeded the embed was sent once; and when the firing is over every
\* guild with a resolvable channel was served, once, whatever failed.
C18_DailyOneFetchNoFallback ==
  /\ \A k \in 1..Len(LogOf(daily)) :
       LET e == daily.log[k]
       IN  /\ e.fetches = 1
           /\ Truthy(e.meme_url) => e.sends = 1 /\ e.payload = "embed"
           /\ ~Truthy(e.meme_url)
                => e.sends = 0 /\ e.payload = None /\ ~e.ok
  /\ DailyDone =>
       /\ \A g \in 1..Len(guilds) : Resolvable(g) => g \in ServedGuilds(daily)
       /\ Len(daily.log) =
            Cardinality({ g \in 1..Len(guilds) : Resolvable(g) })

\* the fetch for the first guild failed and nothing was sent there; the
\* second guild was served and its send was rejected
C18_Witness ==
  /\ DailyDone
  /\ Len(daily.log) = 2
  /\ daily.log[1].sends = 0 /\ ~Truthy(daily.log[1].meme_url)
  /\ daily.log[2].sends = 1 /\ ~daily.log[2].ok

\* C20: a firing of the interval loop that finds no resolvable channel in
\* any guild, or no guild at all, ends at once: no target is served, no
\* meme is fetched, nothing is sent, and the loop waits for its next tick.
C20_NoTargetsNoWork ==
  [][ ( /\ interval.pc = "waiting"
        /\ interval' # interval
        /\ \A g \in 1..Len(guilds) : ~Resolvable(g) )
      => /\ interval'.pc = "waiting"
         /\ interval'.firings = interval.firings + 1
         /\ interval'.log = << >>
         /\ interval'.fetches = 0 /\ interval'.sends = 0 ]_vars

\* two firings over guilds without a writable channel left nothing behind
C20_Witness ==
  /\ interval.pc = "waiting"
  /\ interval.firings = 2
  /\ Len(guilds) = 2
  /\ \A g \in 1..Len(guilds) : ~Resolvable(g)
  /\ interval.log = << >>


\* C22: without a completion client no invocation enters the augmented
\* branch or calls the completion provider, whatever the sender's activity:
\* a message that passes the gate and holds no keyword goes to the draw of
\* the fallback branch and is answered by a reaction, a static phrase or
\* nothing, never by a provider text or a personal phrase.
C22_NoClientNoAugmented ==
  /\ [] (~openai_client =>
           \A t \in InFlight :
             /\ t.branch # "augmented"
             /\ t.completionCalls = 0
             /\ t.payload \notin {"intelligent", "personal_responses"})
  /\ [][ ~openai_client =>
           \A u \in Users, c \in Channels : \A t \in BagToSet(tasks') :
             (Arrival(u, c, t) /\ GateOpen(u, c) /\ ~HasKeyword(ArrivedText(u)))
             => /\ t.branch \in {"fallback", "none"}
                /\ t.pc \in {"sending", "commands"} ]_vars

\* an active user's message was answered by the fallback branch because no
\* client is configured
C22_Witness ==
  /\ ~openai_client
  /\ \E t \in InFlight :
       /\ t.branch = "fallback" /\ t.responded
       /\ t.user \in DOMAIN activity_count
       /\ activity_count[t.user] >= ACTIVE_THRESHOLD

\* C25: an invocation that entered the keyword branch or the augmented
\* branch never adds a reaction and never sends a static phrase, also when
\* its branch ended with nothing sent or with a rejected send.
C25_FallbackOnlyWhenNoBranch ==
  \A t \in InFlight :
    t.branch \in {"keyword", "augmented"} =>
      /\ t.reactions = 0
      /\ t.payload \notin {"cat_phrases", "reactions"}
      /\ t.sends <= 1

\* the link of the keyword branch was rejected by the gateway and the
\* invocation went on to command processing with nothing else attempted
C25_Witness ==
  \E t \in InFlight :
    /\ t.branch = "keyword" /\ t.payload = "meme_link"
    /\ t.sent = "rejected" /\ t.pc = "commands"
    /\ t.sends = 1 /\ t.reactions = 0

\* C26: when the gateway rejects the send or the reaction of a branch, the
\* invocation goes on to command processing and both cooldown maps stay as
\* they were; a later message of a user and channel without cooldown entry
\* is not gated.
C26_RejectedSendNoCooldown ==
  /\ [][ \A t \in InFlight : \A r \in BagToSet(tasks') :
           (SendDone(t, r) /\ r.sent = "rejected")
           => CooldownsUnchanged /\ ~r.responded /\ r.pc = "commands" ]_vars
  /\ [][ \A u \in Users, c \in Channels : \A t \in BagToSet(tasks') :
           ( /\ Arrival(u, c, t)
             /\ c \notin DOMAIN last_channel_reply
             /\ u \notin DOMAIN last_user_reply )
           => t.branch \notin {"gate_channel", "gate_user"} ]_vars

\* a reaction of a user was rejected, and a later message of the same user
\* in the same channel was answered
C26_Witness ==
  \E t \in InFlight : \E r \in InFlight :
    /\ t.sent = "rejected" /\ t.payload = "reactions" /\ t.pc = "commands"
    /\ r.user = t.user /\ r.channel = t.channel
    /\ r.now > t.now
    /\ r.responded

\* C27: the function returns None exactly when the guild has neither a
\* system channel with send permission nor a channel the bot can view and
\* send to; a channel it returns is one the bot may send to.
C27_NoneIffNoTarget ==
  \A k \in 1..Len(picks) :
    LET g == picks[k].guild
        r == picks[k].result
    IN  /\ r = NoChannel <=> (~SystemWritable(g) /\ OpenTargets(g) = {})
        /\ r # NoChannel =>
             /\ r \in 1..Len(g.text_channels)
             /\ g.text_channels[r].send_messages

\* the system channel may not be written and the only other channel can be
\* written but not viewed: None was returned
C27_Witness ==
  \E k \in 1..Len(picks) :
    LET g == picks[k].guild
    IN  /\ Len(g.text_channels) = 2
        /\ g.system_channel = 1
        /\ ~g.text_channels[1].send_messages
        /\ g.text_channels[2].send_messages
        /\ ~g.text_channels[2].view_channel
        /\ picks[k].result = NoChannel

\* the URL ends with one of the image extensions, whatever its case
HasImageExtension(url) ==
  LET cs == Lower(Chars(url))
  IN  \E ext \in image_exts :
        /\ Len(cs) >= Len(ext)
        /\ \A k \in 1..Len(ext) : cs[Len(cs) - Len(ext) + k] = ext[k]

\* C30: a URL that get_cat_meme returned, and that an invocation is about
\* to send as a link, came with status 200, is not empty and has one of the
\* image extensions .jpg, .jpeg, .png, .gif and .webp.
C30_MemeUrlValidated ==
  \A t \in InFlight :
    t.meme_url # None =>
      /\ Truthy(t.meme_url)
      /\ HasImageExtension(t.meme_url)

\* C28: the gate compares strictly: a message that arrives CHANNEL_COOLDOWN
\* seconds or more after the last response in its channel, and USER_COOLDOWN
\* seconds or more after the last response to its sender, is not gated, the
\* exact boundaries included; a channel or a user without entry never gates.
C28_BoundaryNotGated ==
  [][ \A u \in Users, c \in Channels : \A t \in BagToSet(tasks') :
        Arrival(u, c, t) =>
          /\ ( /\ c \in DOMAIN last_channel_reply =>
                     clock - last_channel_reply[c] >= CHANNEL_COOLDOWN
               /\ u \in DOMAIN last_user_reply =>
                     clock - last_user_reply[u] >= USER_COOLDOWN )
             => t.branch \notin {"gate_channel", "gate_user"}
          /\ ( /\ c \in DOMAIN last_channel_reply
               /\ clock - last_channel_reply[c] = CHANNEL_COOLDOWN )
             => t.branch # "gate_channel"
          /\ ( /\ u \in DOMAIN last_user_reply
               /\ clock - last_user_reply[u] = USER_COOLDOWN )
             => t.branch # "gate_user" ]_vars

\* a message that arrived exactly CHANNEL_COOLDOWN seconds after the last
\* response in its channel, from a user without entry, is being answered
C28_Witness ==
  \E t \in InFlight :
    /\ t.pc = "sending"
    /\ t.channel \in DOMAIN last_channel_reply
    /\ t.now - last_channel_reply[t.channel] = CHANNEL_COOLDOWN
    /\ t.user \notin DOMAIN last_user_reply


\* a loop is serving a target
Serving(job) == job.pc \in {"fetching", "sending"}

\* the firing of a loop went through the guilds in their order: the
\* entries of its log have ascending guilds, the target being served comes
\* after them, and no guild with a resolvable channel was passed over
OrderedFiring(job) ==
  LET log == LogOf(job)
  IN  /\ \A j \in 1..Len(log) : \A k \in 1..Len(log) :
           j < k => log[j].target.guild < log[k].target.guild
      /\ Serving(job) =>
           LET cur == job.targets[job.i].guild
           IN  /\ \A k \in 1..Len(log) : log[k].target.guild < cur
               /\ Resolvable(cur)
               /\ \A g \in 1..(cur - 1) :
                    Resolvable(g) => g \in ServedGuilds(job)

\* C21: in a firing of either loop the targets are served in the order of
\* the guilds; a rejected send or a failed fetch for one of them leaves the
\* later ones to be served, in the same order, and when the firing is over
\* every guild with a resolvable channel was served.
C21_TargetsInGuildOrder ==
  /\ OrderedFiring(interval)
  /\ OrderedFiring(daily)
  /\ IntervalDone =>
       ServedGuilds(interval) = { g \in 1..Len(guilds) : Resolvable(g) }
  /\ DailyDone =>
       ServedGuilds(daily) = { g \in 1..Len(guilds) : Resolvable(g) }

\* in both loops the first target failed (a rejected send, a failed fetch)
\* and a later guild is being served
C21_Witness ==
  /\ Serving(interval) /\ Serving(daily)
  /\ Len(interval.log) = 1 /\ ~interval.log[1].ok
  /\ Len(daily.log) = 1 /\ ~daily.log[1].ok
  /\ interval.targets[interval.i].guild > interval.log[1].target.guild
  /\ daily.targets[daily.i].guild > daily.log[1].target.guild

\* the states of the state machine of a loop
Phase(job) ==
  IF job.pc \in {"stopped", "starting", "waiting"} THEN "Idle"
  ELSE IF job.pc = "waiting_anchor" THEN "WaitingForAnchor"
  ELSE IF job.pc \in {"fetching", "sending"} THEN "Running"
  ELSE "Other"

\* the steps of the state machine; a firing without target is over in the
\* step that starts it
PhaseStep(a, b, fired) ==
  \/ a = b
  \/ a = "Idle" /\ b = "WaitingForAnchor"
  \/ a \in {"Idle", "WaitingForAnchor"} /\ b = "Running"
  \/ a = "WaitingForAnchor" /\ b = "Idle" /\ fired
  \/ a = "Running" /\ b = "Idle"

\* C29: each loop is Idle, WaitingForAnchor or Running and moves only from
\* Idle to WaitingForAnchor (the daily loop, once, before its first firing)
\* or to Running, from WaitingForAnchor to Running, and from Running to
\* Idle; the interval loop never waits for the anchor; a firing under way
\* ends, back in Idle, when every awaited call returns or raises.
C29_JobLifecycle ==
  /\ [] (Phase(interval) \in {"Idle", "Running"})
  /\ [] (Phase(daily) \in {"Idle", "WaitingForAnchor", "Running"})
  /\ [][ /\ PhaseStep(Phase(interval), Phase(interval'), FALSE)
         /\ PhaseStep(Phase(daily), Phase(daily'),
                      daily.pc # "stopped" /\ daily'.fired # daily.fired)
         /\ (Phase(daily') = "WaitingForAnchor"
               /\ Phase(daily) # "WaitingForAnchor")
            => daily.pc = "starting" ]_vars
  /\ (Phase(interval) = "Running") ~> (Phase(interval) = "Idle")
  /\ (Phase(daily) = "Running") ~> (Phase(daily) = "Idle")

\* the daily loop is back in Idle after a firing in which a send was
\* rejected, and the interval loop after one in which a fetch failed
C29_Witness ==
  /\ DailyDone /\ IntervalDone
  /\ \E k \in 1..Len(daily.log) : ~daily.log[k].ok /\ daily.log[k].sends = 1
  /\ \E k \in 1..Len(interval.log) :
       interval.log[k].fetches = 1 /\ ~Truthy(interval.log[k].meme_url)


\* the guilds of the targets a firing resolved
TargetGuilds(job) == { job.targets[k].guild : k \in 1..Len(job.targets) }

\* the cooldown of the channel a target stands for is running
UnderCooldown(target) ==
  /\ ChannelIdOf(target) \in DOMAIN last_channel_reply
  /\ clock - last_channel_reply[ChannelIdOf(target)] < CHANNEL_COOLDOWN

\* C23: a step of the interval loop or of the daily loop leaves the four
\* maps of on_message as they are, and a firing resolves a target for every
\* guild with a resolvable channel whatever the cooldowns say; so the maps
\* only ever change by steps of message handling.
C23_JobsLeaveStoreAlone ==
  /\ [][ (interval' # interval \/ daily' # daily) => store' = store ]_vars
  /\ [][ (interval.pc = "waiting" /\ interval' # interval)
          => TargetGuilds(interval') =
               { g \in 1..Len(guilds) : Resolvable(g) } ]_vars
  /\ [][ (daily.pc = "waiting_anchor" /\ daily' # daily)
          => TargetGuilds(daily') =
               { g \in 1..Len(guilds) : Resolvable(g) } ]_vars
  /\ [] (\A k \in 1..Len(LogOf(interval)) : interval.log[k].sends = 1)

\* both loops served the channel while its cooldown was running, the send
\* of the interval loop was accepted, and the maps hold what the one
\* message answered before left in them
C23_Witness ==
  /\ IntervalDone /\ DailyDone
  /\ Len(interval.log) >= 1 /\ interval.log[1].ok
  /\ UnderCooldown(interval.log[1].target)
  /\ Len(daily.log) >= 1 /\ daily.log[1].ok
  /\ last_channel_reply = [c \in {"c1"} |-> 0]
  /\ last_user_reply = [u \in {"u1"} |-> 0]
  /\ activity_count = [u \in {"u1"} |-> 1]
  /\ tasks = EmptyBag


\* C24: a request to / or to /stats leaves the four maps and the
\* invocations in flight as they are, and /stats reports as active users
\* the number of users whose activity count is ACTIVE_THRESHOLD or more,
\* and as tracked users the number of users with a count.
C24_EndpointsReadOnly ==
  /\ [][ http' # http =>
           /\ store' = store
           /\ tasks' = tasks
           /\ UNCHANGED << openai_client, clock, arrived, sched >> ]_vars
  /\ [][ (http' # http /\ http'.path = "/stats") =>
           /\ http'.active_users =
                Cardinality({ u \in Users :
                                Get(activity_count, u, 0) >= ACTIVE_THRESHOLD })
           /\ http'.users_tracked =
                Cardinality({ u \in Users : Get(activity_count, u, 0) > 0 }) ]_vars

\* /stats was answered while an invocation of on_message was in flight,
\* and reported the one user who has just reached the threshold
C24_Witness ==
  /\ http.path = "/stats"
  /\ http.active_users = 1
  /\ "u1" \in DOMAIN activity_count
  /\ activity_count["u1"] = ACTIVE_THRESHOLD
  /\ tasks # EmptyBag


\* C31: no step replaces a timestamp of last_channel_reply or of
\* last_user_reply by an earlier one, however invocations interleave.
C31_CooldownsNeverDecrease ==
  [][ /\ \A c \in DOMAIN last_channel_reply :
           /\ c \in DOMAIN last_channel_reply'
           /\ last_channel_reply'[c] >= last_channel_reply[c]
      /\ \A u \in DOMAIN last_user_reply :
           /\ u \in DOMAIN last_user_reply'
           /\ last_user_reply'[u] >= last_user_reply[u] ]_vars


\* this step ends invocation t
Ends(t) ==
  /\ CopiesIn(t, tasks') = CopiesIn(t, tasks) - 1
  /\ BagCardinality(tasks') = BagCardinality(tasks) - 1

\* C32: every non-bot message starts one invocation, which comes to command
\* processing on each of its paths (gated by the channel cooldown, gated by
\* the user cooldown, responded, nothing sent), only once its branch is
\* decided and its fetch, send or reaction is over, does nothing after it
\* and ends with it; a step that delivers no non-bot message starts none.
C32_CommandsOncePerMessage ==
  /\ [] (\A t \in InFlight :
           /\ t.pc \in {"fetching_meme", "sending", "commands"}
           /\ t.branch \in {"gate_channel", "gate_user", "keyword",
                             "augmented", "fallback", "none"}
           /\ t.branch \in {"gate_channel", "gate_user", "none"}
                => Silent(t))
  /\ [][ /\ (arrived' # arrived)
            <=> BagCardinality(tasks') = BagCardinality(tasks) + 1
         /\ \A t \in InFlight :
              /\ Ends(t) => t.pc = "commands"
              /\ \A r \in BagToSet(tasks') :
                   Resumes(t, r) =>
                     /\ t.pc # "commands"
                     /\ r.pc = "commands" =>
                          \/ t.pc = "sending" /\ r.sent \in {"ok", "rejected"}
                          \/ t.pc = "fetching_meme" /\ ~Truthy(r.meme_url) ]_vars
  /\ (tasks # EmptyBag) ~> (tasks = EmptyBag)

\* a message gated by the user cooldown alone is at command processing
C32_Witness ==
  \E t \in InFlight :
    /\ t.branch = "gate_user" /\ t.pc = "commands"
    /\ t.now - last_channel_reply[t.channel] >= CHANNEL_COOLDOWN
    /\ t.now - last_user_reply[t.user] < USER_COOLDOWN


\* a loop has been started
Running(job) == job.pc # "stopped"

\* C33: each loop has at most one task, however often on_ready runs: a
\* ready event starts a loop that is not running and leaves a running loop
\* as it is, in the middle of a firing too.
C33_OneInstancePerJob ==
  /\ [] (Running(interval) => interval.starts = 1)
  /\ [] (Running(daily) => daily.starts = 1)
  /\ [][ start_time' # start_time =>
           /\ Running(interval') /\ Running(daily')
           /\ Running(interval) => interval' = interval
           /\ Running(daily) => daily' = daily ]_vars

\* a ready event came after both loops were started, in the middle of a
\* firing of the interval loop, and each loop still has its one task
C33_Witness ==
  /\ Running(interval) /\ Running(daily)
  /\ start_time > interval.started
  /\ start_time > daily.started
  /\ start_time = clock
  /\ Serving(interval)
  /\ interval.starts = 1 /\ daily.starts = 1


=============================================================================
